---------------------------- MODULE Spec2Model ----------------------------
(***************************************************************************)
(* The hyperparameter-search notebooks of the Titanic repository: the      *)
(* random-forest notebook and the gradient-boosting notebook.  Each is a   *)
(* top-to-bottom run of cells: load the training tables, grid-search with  *)
(* 5-fold cross-validation and print the results table, persist the best   *)
(* estimator with joblib.dump.                                             *)
(*                                                                         *)
(* Scores are fixed-point numbers: a mean or a standard deviation is an    *)
(* integer count of 1/10000, a displayed (3-decimal) value is an integer   *)
(* count of 1/1000.  learning_rate values are counts of 1/100.             *)
(***************************************************************************)
EXTENDS Integers, Sequences, FiniteSets, TLC

VARIABLES
    nb,          \* the notebook whose kernel is running: "rf", "gb" or "none"
    pc,          \* the cell the run has reached
    tr,          \* tr_features / tr_labels of the kernel: "unset" or "loaded"
    parameters,  \* the kernel's `parameters` dict, in declaration order
    cv,          \* the kernel's GridSearchCV object
    out,         \* stdout of the grid-search cell: the lines print_results wrote
    files,       \* the models directory: path -> bytes (<<>>: no such file)
    prior,       \* history: what the family's model file held before the last dump
    atStart      \* history: the models directory as the current run found it

vars == <<nb, pc, tr, parameters, cv, out, files, prior, atStart>>

-----------------------------------------------------------------------------
(* Bounds of the model *)

MaxLearned == 1

NumVal == 3

-----------------------------------------------------------------------------
(* Values of the program *)

None == -1

cv_folds == 5

Families == {"rf", "gb"}

RFPath == "./models/Random_forest_model.pkl"

GBPath == "./models/Boosting_model.pkl"

Paths == {RFPath, GBPath}

(* A faulty path choice that gives both notebooks the random-forest path   *)
(* (the dump cell copied without renaming); C14 must not survive it.        *)
PathOfShared(f) == RFPath

PathOf(f) == IF f = "rf" THEN RFPath ELSE GBPath

FamilyCode(f) == IF f = "rf" THEN 1 ELSE 2

FamilyOfCode(c) == IF c = 1 THEN "rf" ELSE "gb"

(* The literal of the random-forest notebook, in declaration order. *)
RFParameters ==
    << [name |-> "n_estimators", values |-> <<5, 50, 250>>],
       [name |-> "max_depth",    values |-> <<2, 4, 8, 16, 32, None>>] >>

(* The literal of the gradient-boosting notebook, in declaration order. *)
GBParameters ==
    << [name |-> "n_estimators",  values |-> <<5, 50, 250, 500>>],
       [name |-> "max_depth",     values |-> <<1, 3, 5, 7, 9>>],
       [name |-> "learning_rate", values |-> <<1, 10, 100, 1000, 10000>>] >>

(* The grid of the specification's end-to-end scenario. *)
ScenarioParameters ==
    << [name |-> "n_estimators", values |-> <<5, 50>>],
       [name |-> "max_depth",    values |-> <<2, 4>>] >>

(* A sub-grid of the gradient-boosting literal, small enough to score freely. *)
GBSmallParameters ==
    << [name |-> "n_estimators",  values |-> <<50, 500>>],
       [name |-> "max_depth",     values |-> <<3>>],
       [name |-> "learning_rate", values |-> <<1>>] >>

GridsOf(f) ==
    IF f = "rf" THEN {RFParameters, ScenarioParameters}
                ELSE {GBParameters, GBSmallParameters}

-----------------------------------------------------------------------------
(* Sequence helpers *)

Min(a, b) == IF a <= b THEN a ELSE b

Range(s) == {s[i] : i \in DOMAIN s}

RECURSIVE ProductOfLens(_)
ProductOfLens(lists) ==
    IF lists = <<>> THEN 1
    ELSE Len(Head(lists)) * ProductOfLens(Tail(lists))

-----------------------------------------------------------------------------
(* sklearn.model_selection.ParameterGrid, as GridSearchCV iterates it *)

(* Python's order on the hyperparameter names used by the notebooks. *)
NameOrder == <<"learning_rate", "max_depth", "n_estimators">>

NameRank(n) == CHOOSE i \in DOMAIN NameOrder : NameOrder[i] = n

NameOfRank(i) == NameOrder[i]

SortedNames(S) == SelectSeq(NameOrder, LAMBDA n : n \in S)

(* A faulty enumeration that pairs the value lists index by index (a zip in  *)
(* place of the product); C6 must not survive it.                           *)
ParameterGridZipped(grid) ==
    LET longest == CHOOSE k \in DOMAIN grid :
                      \A j \in DOMAIN grid : Len(grid[j].values) <= Len(grid[k].values)
    IN  [c \in 1..Len(grid[longest].values) |->
            [n \in {grid[k].name : k \in DOMAIN grid} |->
                LET vals == grid[CHOOSE k \in DOMAIN grid : grid[k].name = n].values
                IN  vals[((c - 1) % Len(vals)) + 1]]]

(* A faulty ordering that keeps the items in declaration order (the sort   *)
(* left out); C13 must not survive it.                                      *)
SortedItemsDeclared(grid) == grid

(* sorted(param_grid.items()): the items ordered by hyperparameter name. *)
SortedItems(grid) ==
    LET names == SortedNames({grid[i].name : i \in DOMAIN grid})
    IN  [k \in DOMAIN names |->
            grid[CHOOSE i \in DOMAIN grid : grid[i].name = names[k]]]

(* itertools.product over the value lists: the first list varies slowest, the last
   fastest. *)
RECURSIVE Product(_)
Product(lists) ==
    IF lists = <<>> THEN << <<>> >>
    ELSE LET vals == Head(lists)
             rest == Product(Tail(lists))
         IN  [k \in 1..(Len(vals) * Len(rest)) |->
                <<vals[((k - 1) \div Len(rest)) + 1]>>
                    \o rest[((k - 1) % Len(rest)) + 1]]

(* list(ParameterGrid(param_grid)): one dict per element of the product. *)
ParameterGrid(grid) ==
    LET items  == SortedItems(grid)
        keys   == [k \in DOMAIN items |-> items[k].name]
        combos == Product([k \in DOMAIN items |-> items[k].values])
    IN  [c \in DOMAIN combos |->
            [n \in Range(keys) |->
                combos[c][CHOOSE k \in DOMAIN keys : keys[k] = n]]]

-----------------------------------------------------------------------------
(* What cross-validation can return: per configuration, the mean and the   *)
(* standard deviation of the accuracy over the folds.                      *)

ScorePairs ==
    { [mean |-> 8255, std |-> 3],
      [mean |-> 8265, std |-> 417],
      [mean |-> 8266, std |-> 520] }

(* The tables the two notebooks recorded, as printed (counts of 1/1000). *)
RFRecordedMeans ==
    << 805, 811, 802, 805, 817, 826, 820, 817, 818, 805,
       813, 809, 800, 815, 811, 815, 815, 809 >>

RFRecordedBands ==
    << 146, 82, 131, 69, 83, 104, 44, 58, 65, 44,
       16, 34, 93, 46, 21, 37, 38, 25 >>

GBRecordedMeans ==
    << 624, 796, 796, 811, 624, 811, 830, 841, 624, 820,
       818, 826, 624, 817, 816, 803, 624, 803, 798, 794,
       796, 815, 818, 828, 813, 841, 826, 809, 817, 818,
       802, 800, 822, 796, 798, 798, 798, 792, 788, 794,
       818, 832, 826, 822, 820, 792, 790, 788, 790, 794,
       788, 794, 787, 794, 794, 783, 786, 788, 785, 788,
       204, 204, 204, 204, 307, 307, 307, 307, 492, 438,
       404, 402, 644, 597, 605, 620, 693, 693, 706, 710,
       376, 376, 376, 376, 290, 290, 290, 290, 356, 344,
       344, 354, 552, 560, 562, 590, 672, 655, 672, 674 >>

GBRecordedBands ==
    << 7, 115, 115, 117, 7, 69, 74, 77, 7, 51,
       43, 47, 7, 49, 38, 21, 7, 59, 42, 48,
       115, 119, 111, 92, 71, 70, 32, 40, 45, 41,
       49, 38, 51, 26, 55, 28, 40, 30, 19, 39,
       99, 81, 77, 81, 61, 42, 38, 38, 28, 48,
       41, 37, 38, 57, 43, 27, 40, 43, 32, 59,
       115, 115, 115, 115, 195, 195, 195, 195, 342, 304,
       218, 213, 190, 184, 167, 172, 105, 100, 116, 123,
       7, 7, 7, 7, 102, 102, 102, 102, 186, 178,
       179, 183, 110, 116, 113, 96, 59, 57, 66, 90 >>

(* A score table whose printout is the recorded one. *)
RecordedTable(means, bands) ==
    [i \in DOMAIN means |-> [mean |-> means[i] * 10, std |-> bands[i] * 5]]

ConstantTables(n) == {[i \in 1..n |-> p] : p \in ScorePairs}

(* The score tables a fit over `grid` may produce. *)
ScoreTables(grid) ==
    LET n == Len(ParameterGrid(grid))
    IN  IF grid = RFParameters
        THEN {RecordedTable(RFRecordedMeans, RFRecordedBands)} \cup ConstantTables(n)
        ELSE IF grid = GBParameters
        THEN {RecordedTable(GBRecordedMeans, GBRecordedBands)} \cup ConstantTables(n)
        ELSE [1..n -> ScorePairs]

-----------------------------------------------------------------------------
(* GridSearchCV *)

NoEstimator == [family |-> "none", params |-> <<>>, learned |-> 0]

(* GridSearchCV(estimator, parameters, cv=5) before fit. *)
GridSearchCV(f, grid) ==
    [ fitted          |-> FALSE,
      family          |-> f,
      param_grid      |-> grid,
      n_splits        |-> cv_folds,
      cv_results_     |-> [params |-> <<>>, mean_test_score |-> <<>>,
                           std_test_score |-> <<>>],
      best_index_     |-> 0,
      best_params_    |-> <<>>,
      best_estimator_ |-> NoEstimator ]

NoCV == GridSearchCV("none", <<>>)

(* rank_test_score: rankdata(-mean_test_score, method='min'). *)
RankTestScore(means) ==
    [i \in DOMAIN means |->
        1 + Cardinality({j \in DOMAIN means : means[j] > means[i]})]

(* A faulty argmin that keeps the last index holding the least value; C3    *)
(* must not survive it.                                                     *)
ArgMinLast(ranks) ==
    CHOOSE i \in DOMAIN ranks :
        /\ \A j \in DOMAIN ranks : ranks[i] <= ranks[j]
        /\ \A j \in DOMAIN ranks : ranks[j] = ranks[i] => j <= i

(* numpy argmin: the first index holding the least value. *)
ArgMin(ranks) ==
    CHOOSE i \in DOMAIN ranks :
        /\ \A j \in DOMAIN ranks : ranks[i] <= ranks[j]
        /\ \A j \in DOMAIN ranks : ranks[j] = ranks[i] => i <= j

(* A faulty selection that ranks the means ascending (the sign of the score *)
(* lost), so the least mean wins; C2 must not survive it.                   *)
BestIndexLowest(means) ==
    CHOOSE i \in DOMAIN means :
        /\ \A j \in DOMAIN means : means[i] <= means[j]
        /\ \A j \in DOMAIN means : means[j] = means[i] => i <= j

(* best_index_ = rank_test_score.argmin() *)
BestIndex(means) == ArgMin(RankTestScore(means))

(* A faulty refit that fits the base estimator with its default             *)
(* hyperparameters (set_params forgotten); C10 must not survive it.         *)
RefitDefaults(f, params, learned) ==
    [family  |-> f,
     params  |-> [n \in DOMAIN params |->
                     IF n = "n_estimators" THEN 100
                     ELSE IF n = "learning_rate" THEN 10
                     ELSE IF f = "rf" THEN None ELSE 3],
     learned |-> learned]

(* best_estimator_: a clone of the base estimator with best_params_ set, refit on
   the whole training partition. *)
Refit(f, params, learned) ==
    [family |-> f, params |-> params, learned |-> learned]

(* cv.fit(tr_features, tr_labels): the state of cv after a fit that scored *)
(* the configurations as `table` and whose refit learned `learned`.        *)
Fit(f, grid, table, learned) ==
    LET candidates == ParameterGrid(grid)
        means      == [i \in DOMAIN table |-> table[i].mean]
        stds       == [i \in DOMAIN table |-> table[i].std]
        best       == BestIndex(means)
    IN  [ fitted          |-> TRUE,
          family          |-> f,
          param_grid      |-> grid,
          n_splits        |-> cv_folds,
          cv_results_     |-> [params |-> candidates, mean_test_score |-> means,
                               std_test_score |-> stds],
          best_index_     |-> best,
          best_params_    |-> candidates[best],
          best_estimator_ |-> Refit(f, candidates[best], learned) ]

-----------------------------------------------------------------------------
(* print_results *)

(* A faulty rounding that cuts the fourth decimal off; C5 must not survive  *)
(* it.                                                                      *)
Round3Truncate(x) == x \div 10

(* round(x, 3) of a score x (a count of 1/10000): the nearest count of     *)
(* 1/1000, a value halfway between two going to the even one.              *)
Round3(x) ==
    LET q == x \div 10
        r == x % 10
    IN  IF r > 5 \/ (r = 5 /\ q % 2 = 1) THEN q + 1 ELSE q

(* print('Best params: {}\n'.format(...)): the header and, from the '\n' in *)
(* the string, an empty line after it.                                      *)
HeaderLines(best_params) ==
    << [kind |-> "best", params |-> best_params], [kind |-> "blank"] >>

(* '{} (+/-{}) for {}'.format(round(mean, 3), round(std * 2, 3), params) *)
TrialLine(mean, std, params) ==
    [kind |-> "trial", mean |-> Round3(mean), band |-> Round3(std * 2),
     params |-> params]

(* A faulty loop bound that stops one configuration short; C1 must not     *)
(* survive it.                                                              *)
ZipLenOffByOne(means, stds, params) == Len(params) - 1

(* zip(means, stds, params) stops at the shortest of the three. *)
ZipLen(means, stds, params) == Min(Len(means), Min(Len(stds), Len(params)))

(* A faulty printer that moves the best configuration's line to the front  *)
(* of the table; C4 must not survive it.                                    *)
print_results_best_first(results) ==
    LET means == results.cv_results_.mean_test_score
        stds  == results.cv_results_.std_test_score
        pars  == results.cv_results_.params
        b     == results.best_index_
        at(i) == IF i = 1 THEN b ELSE IF i = b THEN 1 ELSE i
    IN  HeaderLines(results.best_params_)
            \o [i \in 1..ZipLen(means, stds, pars) |->
                    TrialLine(means[at(i)], stds[at(i)], pars[at(i)])]

print_results(results) ==
    LET means == results.cv_results_.mean_test_score
        stds  == results.cv_results_.std_test_score
        pars  == results.cv_results_.params
    IN  HeaderLines(results.best_params_)
            \o [i \in 1..ZipLen(means, stds, pars) |->
                    TrialLine(means[i], stds[i], pars[i])]

-----------------------------------------------------------------------------
(* joblib.dump, and the joblib.load and predict of the comparison step *)

(* A faulty dump that pickles an unfitted clone (the learned state lost):  *)
(* the round trip of C8 must not survive it.                                *)
joblib_dump_unfitted(est) ==
    LET names == SortedNames(DOMAIN est.params)
    IN  <<FamilyCode(est.family), 0, Len(names)>>
            \o [i \in 1..(2 * Len(names)) |->
                    IF i % 2 = 1 THEN NameRank(names[(i + 1) \div 2])
                                 ELSE est.params[names[i \div 2]]]

(* The bytes of the pickle: family, learned state, number of hyperparameters, *)
(* then a (name, value) pair per hyperparameter.                              *)
joblib_dump(est) ==
    LET names == SortedNames(DOMAIN est.params)
    IN  <<FamilyCode(est.family), est.learned, Len(names)>>
            \o [i \in 1..(2 * Len(names)) |->
                    IF i % 2 = 1 THEN NameRank(names[(i + 1) \div 2])
                                 ELSE est.params[names[i \div 2]]]

joblib_load(bytes) ==
    LET n == bytes[3]
    IN  [family  |-> FamilyOfCode(bytes[1]),
         params  |-> [name \in {NameOfRank(bytes[2 + 2 * k]) : k \in 1..n} |->
                         bytes[3 + 2 * (CHOOSE k \in 1..n :
                                            NameOfRank(bytes[2 + 2 * k]) = name)]],
         learned |-> bytes[2]]

ValRows == 1..NumVal

RECURSIVE ParamSum(_, _)
ParamSum(params, names) ==
    IF names = <<>> THEN 0
    ELSE params[Head(names)] + ParamSum(params, Tail(names))

(* estimator.predict over the validation partition: a binary label per row, *)
(* decided by the hyperparameters and the learned state.                    *)
Predict(est) ==
    [row \in ValRows |->
        (est.learned * row + ParamSum(est.params, SortedNames(DOMAIN est.params))) % 2]

-----------------------------------------------------------------------------
(* The run of a notebook, cell by cell *)

Init ==
    /\ nb = "none"
    /\ pc = "idle"
    /\ tr = "unset"
    /\ parameters = <<>>
    /\ cv = NoCV
    /\ out = <<>>
    /\ files = [p \in Paths |-> <<>>]
    /\ prior = <<>>
    /\ atStart = [p \in Paths |-> <<>>]

(* A notebook is opened on a fresh kernel and run from the top. *)
StartRun(f) ==
    /\ nb = "none"
    /\ nb' = f
    /\ pc' = "load"
    /\ atStart' = files
    /\ UNCHANGED <<tr, parameters, cv, out, files, prior>>

(* Cell 3: the two pd.read_csv calls return. *)
LoadData ==
    /\ pc = "load"
    /\ tr' = "loaded"
    /\ pc' = "search"
    /\ UNCHANGED <<nb, parameters, cv, out, files, prior, atStart>>

(* Cell 3: pd.read_csv raises; the run stops at the cell. *)
LoadDataRaises ==
    /\ pc = "load"
    /\ pc' = "failed"
    /\ UNCHANGED <<nb, tr, parameters, cv, out, files, prior, atStart>>

(* Cell 5: parameters, GridSearchCV, cv.fit and print_results(cv). *)
GridSearchCell ==
    /\ pc = "search"
    /\ \E grid \in GridsOf(nb) :
        \E table \in ScoreTables(grid) :
            \E learned \in 1..MaxLearned :
                /\ parameters' = grid
                /\ cv' = Fit(nb, grid, table, learned)
                /\ out' = print_results(cv')
    /\ pc' = "dump"
    /\ UNCHANGED <<nb, tr, files, prior, atStart>>

(* A faulty search cell that, when the fit raises, falls back to pickling   *)
(* the unfitted base estimator; C12 must not survive it.                    *)
GridSearchRaisesFallback ==
    /\ pc = "search"
    /\ \E grid \in GridsOf(nb) :
        /\ parameters' = grid
        /\ cv' = GridSearchCV(nb, grid)
    /\ files' = [files EXCEPT ![PathOf(nb)] =
                    joblib_dump([family |-> nb, params |-> <<>>, learned |-> 0])]
    /\ pc' = "failed"
    /\ UNCHANGED <<nb, tr, out, prior, atStart>>

(* A faulty search cell that catches the exception and leaves the run at    *)
(* the cell to fit again; C11 must not survive it.                          *)
GridSearchRaisesRetry ==
    /\ pc = "search"
    /\ \E grid \in GridsOf(nb) :
        /\ parameters' = grid
        /\ cv' = GridSearchCV(nb, grid)
    /\ pc' = "search"
    /\ UNCHANGED <<nb, tr, out, files, prior, atStart>>

(* Cell 5: cv.fit raises; print_results is not reached. *)
GridSearchRaises ==
    /\ pc = "search"
    /\ \E grid \in GridsOf(nb) :
        /\ parameters' = grid
        /\ cv' = GridSearchCV(nb, grid)
    /\ pc' = "failed"
    /\ UNCHANGED <<nb, tr, out, files, prior, atStart>>

(* A faulty persist step that leaves an existing model file alone; C9 must  *)
(* not survive it.                                                          *)
DumpCellKeepExisting ==
    /\ pc = "dump"
    /\ prior' = files[PathOf(nb)]
    /\ files' = IF files[PathOf(nb)] = <<>>
                THEN [files EXCEPT ![PathOf(nb)] = joblib_dump(cv.best_estimator_)]
                ELSE files
    /\ pc' = "done"
    /\ UNCHANGED <<nb, tr, parameters, cv, out, atStart>>

(* Cell 7: joblib.dump(cv.best_estimator_, path). *)
DumpCell ==
    /\ pc = "dump"
    /\ prior' = files[PathOf(nb)]
    /\ files' = [files EXCEPT ![PathOf(nb)] = joblib_dump(cv.best_estimator_)]
    /\ pc' = "done"
    /\ UNCHANGED <<nb, tr, parameters, cv, out, atStart>>

(* The run is over (last cell executed, or stopped at an exception) and the *)
(* kernel is shut down: only the models directory remains.                  *)
EndRun ==
    /\ pc \in {"done", "failed"}
    /\ nb' = "none"
    /\ pc' = "idle"
    /\ tr' = "unset"
    /\ parameters' = <<>>
    /\ cv' = NoCV
    /\ out' = <<>>
    /\ prior' = <<>>
    /\ atStart' = files
    /\ UNCHANGED files

Next ==
    \/ \E f \in Families : StartRun(f)
    \/ LoadData
    \/ LoadDataRaises
    \/ GridSearchCell
    \/ GridSearchRaises
    \/ DumpCell
    \/ EndRun

Spec == Init /\ [][Next]_vars

-----------------------------------------------------------------------------
(* Vocabulary of the properties *)

(* The grid-search cell of the current run has returned. *)
Printed == pc \in {"dump", "done"}

Candidates == cv.cv_results_.params

Means == cv.cv_results_.mean_test_score

Stds == cv.cv_results_.std_test_score

LinesOfKind(k) == {i \in DOMAIN out : out[i].kind = k}

MaxMean == CHOOSE m \in Range(Means) : \A x \in Range(Means) : x <= m

(* Every assignment of one listed value to each hyperparameter name. *)
AllCombinations(grid) ==
    LET names  == {grid[k].name : k \in DOMAIN grid}
        valsOf == [n \in names |->
                     Range(grid[CHOOSE k \in DOMAIN grid : grid[k].name = n].values)]
    IN  {c \in [names -> UNION {valsOf[n] : n \in names}] :
            \A n \in names : c[n] \in valsOf[n]}

ListLens(grid) == [k \in DOMAIN grid |-> grid[k].values]

-----------------------------------------------------------------------------
(* C1: once print_results has run over a result of N configurations, the    *)
(* output holds exactly N trial lines and exactly one best-configuration    *)
(* header line, and every configuration of cv_results_['params'] is on      *)
(* exactly one trial line.                                                  *)
C1_LineCount ==
    Printed =>
        /\ Len(Candidates) >= 1
        /\ Cardinality(LinesOfKind("trial")) = Len(Candidates)
        /\ Cardinality(LinesOfKind("best")) = 1
        /\ \A c \in DOMAIN Candidates :
              Cardinality({i \in LinesOfKind("trial") :
                              out[i].params = Candidates[c]}) = 1

C1_Witness ==
    /\ Printed
    /\ Len(Candidates) = 18
    /\ Cardinality(LinesOfKind("trial")) = 18

(* C2: the configuration of the 'Best params' header is an enumerated       *)
(* configuration, its mean is the maximum of the means, and no trial line   *)
(* shows a mean greater than the one on the line of that configuration.     *)
C2_ArgmaxConsistency ==
    Printed =>
        /\ out[1].kind = "best"
        /\ \E c \in DOMAIN Candidates :
              /\ Candidates[c] = out[1].params
              /\ Means[c] = MaxMean
        /\ \E i \in LinesOfKind("trial") :
              /\ out[i].params = out[1].params
              /\ \A j \in LinesOfKind("trial") : out[j].mean <= out[i].mean

C2_Witness ==
    /\ Printed
    /\ \E c \in DOMAIN Candidates : Means[c] < MaxMean
    /\ \E i, j \in LinesOfKind("trial") :
          /\ out[i].params = out[1].params
          /\ out[j].mean < out[i].mean

(* C3: when several configurations share the maximum mean, the best one is  *)
(* the first of them in enumeration order.                                  *)
C3_FirstSeenWins ==
    Printed =>
        /\ \A c \in DOMAIN Candidates : Means[c] <= Means[cv.best_index_]
        /\ \A c \in DOMAIN Candidates :
              Means[c] = Means[cv.best_index_] => cv.best_index_ <= c
        /\ cv.best_params_ = Candidates[cv.best_index_]
        /\ out[1].params = Candidates[cv.best_index_]

(* The recorded gradient-boosting table: configurations 8 and 26 both show  *)
(* 0.841 and the header names configuration 8.                              *)
C3_Witness ==
    /\ Printed
    /\ parameters = GBParameters
    /\ Means[8] = MaxMean
    /\ Means[26] = MaxMean
    /\ cv.best_index_ = 8
    /\ out[1].params = [learning_rate |-> 1, max_depth |-> 3, n_estimators |-> 500]

(* C4: the header is the first line and no later line is a header; the i-th *)
(* trial line is the line of the i-th enumerated configuration, its mean,   *)
(* band and configuration all taken from index i; lines are not ordered by  *)
(* score.                                                                   *)
C4_EnumerationOrder ==
    Printed =>
        /\ LinesOfKind("best") = {1}
        /\ \A i \in LinesOfKind("trial") : i > 1
        /\ \A c \in DOMAIN Candidates :
              LET line == out[2 + c]
              IN  /\ line.kind = "trial"
                  /\ line.params = Candidates[c]
                  /\ line.mean = Round3(Means[c])
                  /\ line.band = Round3(Stds[c] * 2)

(* The best configuration's line is not the first trial line, and a line    *)
(* with a lower mean precedes it.                                           *)
C4_Witness ==
    /\ Printed
    /\ cv.best_index_ > 1
    /\ out[2 + cv.best_index_].params = out[1].params
    /\ out[3].mean < out[2 + cv.best_index_].mean

(* C5: on every trial line the displayed mean is the count of 1/1000        *)
(* nearest to the mean, and the displayed band is the count of 1/1000       *)
(* nearest to twice the standard deviation.                                 *)
C5_Rounding ==
    Printed =>
        \A c \in DOMAIN Candidates :
            LET line == out[2 + c]
                dm   == 10 * line.mean - Means[c]
                db   == 10 * line.band - 2 * Stds[c]
            IN  /\ -5 <= dm /\ dm <= 5
                /\ -5 <= db /\ db <= 5

(* A mean that rounds up (0.8266 -> 0.827) beside a band whose doubling     *)
(* decides it (std 0.0003 -> band 0.001, std 0.0417 -> band 0.083).         *)
C5_Witness ==
    /\ Printed
    /\ \E c \in DOMAIN Candidates :
          /\ Means[c] = 8266 /\ out[2 + c].mean = 827
    /\ \E c \in DOMAIN Candidates :
          /\ Stds[c] = 3 /\ out[2 + c].band = 1
    /\ \E c \in DOMAIN Candidates :
          /\ Stds[c] = 417 /\ out[2 + c].band = 83

(* C6: the enumerated configurations are exactly the combinations with one  *)
(* value per name, each once, so their number is the product of the list    *)
(* lengths: 18 for the random-forest grid, 100 for the gradient-boosting    *)
(* grid.                                                                    *)
C6_CrossProduct ==
    Printed =>
        /\ Range(Candidates) = AllCombinations(parameters)
        /\ \A i, j \in DOMAIN Candidates : Candidates[i] = Candidates[j] => i = j
        /\ Len(Candidates) = ProductOfLens(ListLens(parameters))
        /\ parameters = RFParameters => Len(Candidates) = 3 * 6
        /\ parameters = GBParameters => Len(Candidates) = 4 * 5 * 5

C6_Witness ==
    /\ Printed
    /\ parameters = GBParameters
    /\ Len(Candidates) = 100
    /\ Cardinality(Range(Candidates)) = 100

C9_Overwrite ==
    [][ IF pc = "dump" /\ pc' = "done"
        THEN files' = [files EXCEPT ![PathOf(nb)] = joblib_dump(cv.best_estimator_)]
        ELSE files' = files ]_vars

(* A rerun replaced a different artifact of an earlier run. *)
C9_Witness ==
    /\ pc = "done"
    /\ prior # <<>>
    /\ prior # files[PathOf(nb)]
    /\ files[PathOf(nb)] = joblib_dump(cv.best_estimator_)

(* C10: the persisted estimator is the refit best estimator: of the run's   *)
(* family, fitted, with the hyperparameters of the 'Best params' header.    *)
C10_PersistedIsBest ==
    pc = "done" =>
        LET est == joblib_load(files[PathOf(nb)])
        IN  /\ est.family = nb
            /\ est.learned >= 1
            /\ est.params = out[1].params
            /\ est.params = cv.best_params_

(* The persisted configuration is not the first enumerated one. *)
C10_Witness ==
    /\ pc = "done"
    /\ cv.best_index_ > 1
    /\ joblib_load(files[PathOf(nb)]).params = out[1].params
    /\ joblib_load(files[PathOf(nb)]).params # Candidates[1]

(* The order of the cells of one run: each arrow is one step. *)
WorkflowEdges ==
    { <<"idle", "load">>, <<"load", "search">>, <<"search", "dump">>,
      <<"dump", "done">>, <<"load", "failed">>, <<"search", "failed">>,
      <<"done", "idle">>, <<"failed", "idle">> }

(* C11: every step of a run moves it one cell forward along the fixed order *)
(* load, grid search with its printout, persist (no step is repeated and    *)
(* none is skipped); the tables are loaded only by the load step, cv is     *)
(* fitted and the table printed only by the search step, after the load;    *)
(* a model file is written only by the persist step, after the search of    *)
(* the same run has selected its best configuration; and at every cell      *)
(* before the end the step that does not raise can be taken, so a run that  *)
(* is executed cell after cell reaches the persist step unless a step       *)
(* raises (in three steps, the order having no cycle inside a run).         *)
C11_WorkflowOrder ==
    /\ [][ /\ pc' # pc
           /\ <<pc, pc'>> \in WorkflowEdges
           /\ (tr' = "loaded" /\ tr # "loaded") => pc = "load"
           /\ (cv'.fitted /\ ~cv.fitted) =>
                 (pc = "search" /\ tr = "loaded" /\ out = <<>> /\ out' # <<>>)
           /\ (out' # out /\ out' # <<>>) => (pc = "search" /\ cv'.fitted)
           /\ files' # files =>
                 /\ pc = "dump"
                 /\ cv.fitted
                 /\ cv.best_params_ = out[1].params
                 /\ cv.best_params_ \in Range(ParameterGrid(parameters)) ]_vars
    /\ [](pc = "load" => ENABLED LoadData)
    /\ [](pc = "search" => ENABLED GridSearchCell)
    /\ [](pc = "dump" => ENABLED DumpCell)

(* A run went through every cell and wrote the file it had not found. *)
C11_Witness ==
    /\ pc = "done"
    /\ tr = "loaded"
    /\ cv.fitted
    /\ Len(out) = 2 + Len(Candidates)
    /\ atStart[PathOf(nb)] = <<>>
    /\ files[PathOf(nb)] # <<>>

(* C12: a run stopped by an exception of the load or of the fit has printed *)
(* no results table, holds no fitted search and has left the models         *)
(* directory as it found it; the raising step itself changes no file and    *)
(* prints nothing; and after it nothing is retried or recovered: the only   *)
(* step left is the end of the run, which writes no file either.            *)
C12_FailurePropagation ==
    /\ [](pc = "failed" => (out = <<>> /\ ~cv.fitted /\ files = atStart))
    /\ [][ pc' = "failed" =>
              /\ pc \in {"load", "search"}
              /\ files' = files
              /\ out' = out
              /\ tr' = tr ]_vars
    /\ [][ pc = "failed" => (pc' = "idle" /\ files' = files) ]_vars

(* The fit raised in a run that had found a persisted model. *)
C12_Witness ==
    /\ pc = "failed"
    /\ tr = "loaded"
    /\ cv.param_grid # <<>>
    /\ files[PathOf(nb)] # <<>>
    /\ files = atStart

(* The load raised in a run that had found a persisted model. *)
C12_WitnessLoad ==
    /\ pc = "failed"
    /\ tr = "unset"
    /\ files[PathOf(nb)] # <<>>

(* The alphabetical order of the hyperparameter names, pair by pair. *)
Alphabetical(a, b) ==
    <<a, b>> \in { <<"learning_rate", "max_depth">>,
                   <<"learning_rate", "n_estimators">>,
                   <<"max_depth", "n_estimators">> }

GridNames == {parameters[k].name : k \in DOMAIN parameters}

(* The place of configuration c's value for name n in the list written for n. *)
PlaceOf(c, n) ==
    LET vals == parameters[CHOOSE k \in DOMAIN parameters :
                               parameters[k].name = n].values
    IN  CHOOSE i \in DOMAIN vals : vals[i] = Candidates[c][n]

(* Configuration a precedes configuration b when, at the alphabetically     *)
(* first name where they differ, a holds the earlier listed value.          *)
Precedes(a, b) ==
    \E n \in GridNames :
        /\ PlaceOf(a, n) < PlaceOf(b, n)
        /\ \A m \in GridNames : Alphabetical(m, n) => PlaceOf(a, m) = PlaceOf(b, m)

Reversed(seq) == [i \in 1..Len(seq) |-> seq[Len(seq) + 1 - i]]

(* C13: the configurations are enumerated with the names in alphabetical    *)
(* order and the last name varying fastest, whatever the order in which the *)
(* grid is written: each configuration precedes the next one, the grid      *)
(* written in the reverse order enumerates the same sequence, the           *)
(* random-forest grid runs through its three n_estimators values for        *)
(* max_depth 2 before it moves to max_depth 4, and of the configurations    *)
(* tied at the best mean the one selected precedes every other.             *)
C13_SortedNameOrder ==
    Printed =>
        /\ \A c \in 1..(Len(Candidates) - 1) : Precedes(c, c + 1)
        /\ ParameterGrid(Reversed(parameters)) = Candidates
        /\ parameters = RFParameters =>
              /\ Candidates[1] = [max_depth |-> 2, n_estimators |-> 5]
              /\ Candidates[2] = [max_depth |-> 2, n_estimators |-> 50]
              /\ Candidates[3] = [max_depth |-> 2, n_estimators |-> 250]
              /\ Candidates[4] = [max_depth |-> 4, n_estimators |-> 5]
        /\ \A c \in DOMAIN Candidates :
              (Means[c] = Means[cv.best_index_] /\ c # cv.best_index_)
                  => Precedes(cv.best_index_, c)

(* The grid written as n_estimators then max_depth, with (2, 50) and (4, 5) *)
(* tied at the best mean: the header names (2, 50), which the alphabetical  *)
(* order puts first and the written order would put last.                   *)
C13_Witness ==
    /\ Printed
    /\ parameters = ScenarioParameters
    /\ parameters[1].name = "n_estimators"
    /\ Means[1] < Means[2]
    /\ Means[2] = Means[3]
    /\ Means[4] < Means[2]
    /\ Candidates[3] = [max_depth |-> 4, n_estimators |-> 5]
    /\ out[1].params = [max_depth |-> 2, n_estimators |-> 50]

(* C14: the two families persist to the two distinct paths                  *)
(* './models/Random_forest_model.pkl' and './models/Boosting_model.pkl';    *)
(* no step of a run changes the model file of the other family; a model     *)
(* file, once written, never disappears and holds an estimator of its own   *)
(* family; and the step that completes a run leaves the run's own file in   *)
(* place: once both workflows have completed, both artifacts exist.         *)
C14_ArtifactIsolation ==
    /\ [](/\ RFPath = "./models/Random_forest_model.pkl"
          /\ GBPath = "./models/Boosting_model.pkl"
          /\ RFPath # GBPath)
    /\ [](\A f \in Families :
             files[PathOf(f)] # <<>> => joblib_load(files[PathOf(f)]).family = f)
    /\ [][ \A f \in Families :
              f # nb => files'[PathOf(f)] = files[PathOf(f)] ]_vars
    /\ [][ \A p \in Paths : files[p] # <<>> => files'[p] # <<>> ]_vars
    /\ [][ pc' = "done" => files'[PathOf(nb)] # <<>> ]_vars

(* A rerun of the gradient-boosting notebook replaced its own artifact and  *)
(* left the random-forest artifact, written by an earlier run, as it was.   *)
C14_Witness ==
    /\ pc = "done"
    /\ nb = "gb"
    /\ atStart[RFPath] # <<>>
    /\ atStart[GBPath] # <<>>
    /\ files[RFPath] = atStart[RFPath]
    /\ files[GBPath] # atStart[GBPath]
    /\ joblib_load(files[RFPath]).family = "rf"
    /\ joblib_load(files[GBPath]).family = "gb"

=============================================================================
